---- MODULE Spec2Model ----
(***************************************************************************)
(* A model of atef's passive checkout command line (atef/bin/check.py) and *)
(* of the run-mode tree of the configuration GUI                           *)
(* (atef/widgets/config/window.py).                                        *)
(***************************************************************************)
EXTENDS Integers, Sequences, FiniteSets, TLC

(***************************************************************************)
(* Bounds of the model.                                                    *)
(***************************************************************************)
MaxPvs == 2
MaxDevs == 2
MaxChecks == 1
MaxResults == 3

(***************************************************************************)
(* Values of the program.                                                  *)
(***************************************************************************)
\* Severity is an ordered enumeration: success < warning < error < internal_error.
success == 0
warning == 1
error == 2
internal_error == 3
Severity == {success, warning, error, internal_error}

\* The levels of the logging module.
DEBUG == 10
INFO == 20
WARNING == 30
ERROR == 40
CRITICAL == 50
LogLevels == {DEBUG, INFO, WARNING, ERROR, CRITICAL}

\* Names of PVs and devices; NoName is a PVConfiguration whose name is None.
Names == {"A", "B"}
NoName == "<None>"
PvNames == Names \cup {NoName}

\* All sequences over S of length at most n.
SeqsUpTo(S, n) == UNION {[1..k -> S] : k \in 0..n}

\* Whether no element occurs twice in s.
Distinct(s) == \A a, b \in DOMAIN s : a # b => s[a] # s[b]

\* The elements of s.
Range(s) == {s[k] : k \in DOMAIN s}

\* A document on disk: the PV configurations (a list, names may repeat), the
\* device configurations (a mapping, so the keys are distinct and ordered) and
\* whether yaml.safe_load and apischema.deserialize accept it.
Documents ==
    [wellformed : BOOLEAN,
     pvs : SeqsUpTo(PvNames, MaxPvs),
     devices : {d \in SeqsUpTo(Names, MaxDevs) : Distinct(d)}]

\* The filtered_devices argument: None (not supplied) or a list of names.
FilterArgs ==
    {[supplied |-> FALSE, names |-> {}]}
        \cup [supplied : {TRUE}, names : SUBSET Names]

\* The results check_device returns: a list of Result(severity, reason); the
\* reasons of one list are told apart by their position.
ResultListsUpTo(n) ==
    UNION {{[k \in 1..m |-> [severity |-> s[k], reason |-> k]] :
                s \in [1..m -> Severity]} : m \in 0..n}

\* The result lists of a checkout run, and those log_results is given when it
\* is looked at on its own.
ResultLists == ResultListsUpTo(MaxChecks)
LoggedResultLists == ResultListsUpTo(MaxResults)

NoEntry == [kind |-> "none", name |-> NoName,
            severity |-> success, results |-> <<>>]

VARIABLES
    document,          \* the file named on the command line
    filtered_devices,  \* main's filtered_devices argument
    loggerLevel,       \* the effective level of the module logger
    pc,                \* where main is
    gen,               \* where the generator check_config_file is
    i,                 \* the generator's position in the loop it is in
    config,            \* the deserialized ConfigurationFile
    deserialized,      \* whether config holds a deserialized document
    yielded,           \* the entries the generator has yielded, in order
    cur,               \* main's loop variables: the entry yielded last
    pvInstantiated,    \* indices of config.pvs whose device class was instantiated
    clientCreated,     \* whether happi.Client.from_config() was called
    lookedUp,          \* device names looked up with client[dev_name]
    instantiated,      \* device names whose search_result.get() was called
    errorLogged,       \* device names logger.error reported as skipped
    log,               \* the records of the latest log_results call
    nLogCalls,         \* how many times log_results was called
    raising,           \* whether an exception is propagating out of main's try
    cleanedUp          \* whether ophyd_cleanup() ran

checkVars == <<document, filtered_devices, loggerLevel, pc, gen, i, config,
               deserialized, yielded, cur, pvInstantiated, clientCreated,
               lookedUp, instantiated, errorLogged, log, nLogCalls, raising,
               cleanedUp>>

VARIABLES
    cfgFile,    \* the configuration file object the edit tree holds
    caches,     \* how many DataCache objects have been created
    prepared,   \* the PreparedFile objects created, in order of creation
    trees,      \* the RunTree objects created, in order of creation
    rpc,        \* where the construction of the latest RunTree is
    ri          \* the position of the loop that construction is in

runVars == <<cfgFile, caches, prepared, trees, rpc, ri>>

\* The Result Cache of one checkout run (atef.cache.DataCache) and the
\* comparisons requesting values from it.
VARIABLES
    rcKey,          \* rcKey[r]: the (identity, attribute) pair requester r references
    rcEntry,        \* rcEntry[k]: "absent", "inflight", "value" or "failure"
    rcFetches,      \* rcFetches[k]: live fetches issued for k in this run
    rcPc,           \* rcPc[r]: "start", "waiting" or "done"
    rcGot,          \* rcGot[r]: what get_or_fetch gave r in this run
    rcRun           \* number of the checkout run

cacheVars == <<rcKey, rcEntry, rcFetches, rcPc, rcGot, rcRun>>

\* One evaluation of a prepared tree (Evaluation/Aggregation Pass).
VARIABLES
    grpParent,      \* grpParent[n]: the group holding node n (0 for the root)
    grpResult       \* grpResult[n]: the Result slot of prepared node n

groupVars == <<grpParent, grpResult>>

\* One DualTree over the file of the edit tree.  Its widgets are named by
\* EditWidget for trees['edit'] and by the index in trees of a RunTree.
VARIABLES
    dualPc,         \* position in the running DualTree method ("none": no DualTree)
    mode,           \* self.mode
    run_tree,       \* self.trees['run']
    run_config,     \* self.run_config
    layout,         \* the widgets of self.layout
    visible,        \* the tree widgets that are shown
    dualCaller,     \* the method that called build_run_tree
    dualBefore      \* the number of RunTrees when build_run_tree was entered

dualVars == <<dualPc, mode, run_tree, run_config, layout, visible, dualCaller,
              dualBefore>>

\* The tree and the splitter of one EditTree.  Items and their page widgets
\* are named by the position of the item in the tree.
VARIABLES
    itemCount,      \* the number of items of tree_widget
    currentItem,    \* tree_widget.currentItem()
    last_selection, \* self.last_selection
    built_widgets,  \* self.built_widgets
    splitterPage,   \* the page widget at index 1 of self.splitter
    pageVisible     \* the page widgets that are visible

editVars == <<itemCount, currentItem, last_selection, built_widgets,
              splitterPage, pageVisible>>

\* One item of a RunTree in the item loop of _swap_to_run_widgets.
VARIABLES
    matchFile,      \* self.config_file
    matchItem,      \* the configuration node item.widget.data is
    matchPaired,    \* what the item is paired with in item_config_list
    matchPc         \* "start" or "paired"

matchVars == <<matchFile, matchItem, matchPaired, matchPc>>

\* The tabs of the Window.
VARIABLES
    tabs,           \* the widgets of tab_widget with their titles
    currentTab,     \* tab_widget.currentIndex() + 1; 0 without tabs
    lastCall        \* the last slot of the Window that ran, and how it ended

winVars == <<tabs, currentTab, lastCall>>

\* One StringListWithDialog over a QDataclassList of strings.
VARIABLES
    given_list,         \* the strings of data_list when the widget is made
    data_list,          \* self.data_list.get()
    list_strings,       \* the texts of the rows of self.list_strings
    allow_duplicates,   \* self.allow_duplicates
    removeRaises,       \* whether remove_value raises for an absent value
    listPc,             \* "new", "built" (just constructed) or "used"
    lastEdit            \* the arguments of the last edit_items

listVars == <<given_list, data_list, list_strings, allow_duplicates,
              removeRaises, listPc, lastEdit>>

\* The state of the components added after the command line and the RunTree.
laterVars ==
    <<cacheVars, groupVars, dualVars, editVars, matchVars, winVars, listVars>>

\* What the actions of one component leave alone.
exceptCache ==
    <<checkVars, runVars, groupVars, dualVars, editVars,
      matchVars, winVars, listVars>>
exceptGroup ==
    <<checkVars, runVars, cacheVars, dualVars, editVars,
      matchVars, winVars, listVars>>
exceptDual ==
    <<checkVars, cacheVars, groupVars, editVars, matchVars, winVars,
      listVars>>
exceptEdit ==
    <<checkVars, runVars, cacheVars, groupVars, dualVars,
      matchVars, winVars, listVars>>
exceptMatch ==
    <<checkVars, runVars, cacheVars, groupVars, dualVars, editVars,
      winVars, listVars>>
exceptWin ==
    <<checkVars, runVars, cacheVars, groupVars, dualVars, editVars,
      matchVars, listVars>>
exceptList ==
    <<checkVars, runVars, cacheVars, groupVars, dualVars, editVars,
      matchVars, winVars>>

vars == <<checkVars, runVars, laterVars>>

(***************************************************************************)
(* check_config_file                                                       *)
(***************************************************************************)
\* `if filtered_devices and ...`: None and the empty list are both false.
Truthy(f) == f.supplied /\ f.names # {}

\* A check_config_file that never skips a PV configuration.
PvFilteredOutNever(f, name) == FALSE

\* `if filtered_devices and pv_config.name not in filtered_devices: continue`
PvFilteredOut(f, name) == Truthy(f) /\ name \notin f.names

\* A check_config_file that never skips a device configuration.
DevFilteredOutNever(f, name) == FALSE

\* `if filtered_devices and dev_name not in filtered_devices: continue`
DevFilteredOut(f, name) == Truthy(f) /\ name \notin f.names

\* `dev_cls(name=pv_config.name or "PVConfig")`
PvDeviceName(name) == IF name = NoName THEN "PVConfig" ELSE name

\* A loop over config.devices that runs from the last key to the first.
DevKeyReversed(cfg, k) == cfg.devices[Len(cfg.devices) - k + 1]

\* `for dev_name, dev_config in config.devices.items()`: the k-th key of the
\* mapping, in the order of the mapping.
DevKey(cfg, k) == cfg.devices[k]

\* A check_config_file without the early return: the client is always created.
NeedsClientAlways(cfg) == TRUE

\* `if not config.devices: return` guards the creation of the client.
NeedsClient(cfg) == cfg.devices # <<>>

RECURSIVE MaxSeverity(_, _)
MaxSeverity(results, k) ==
    IF k = 0 THEN success
    ELSE LET rest == MaxSeverity(results, k - 1)
         IN  IF results[k].severity > rest THEN results[k].severity ELSE rest

\* check_device(dev, checks) -> (severity, results): the overall severity is
\* the worst severity among the results.
check_device_severity(results) == MaxSeverity(results, Len(results))

InGenerator == pc = "gen"

PvSkip ==
    /\ InGenerator /\ gen = "pvs" /\ i <= Len(config.pvs)
    /\ PvFilteredOut(filtered_devices, config.pvs[i])
    /\ i' = i + 1
    /\ UNCHANGED <<document, filtered_devices, loggerLevel, pc, gen, config,
                   deserialized, yielded, cur, pvInstantiated, clientCreated,
                   lookedUp, instantiated, errorLogged, log, nLogCalls,
                   raising, cleanedUp>>
    /\ UNCHANGED <<runVars, laterVars>>

PvCheck ==
    /\ InGenerator /\ gen = "pvs" /\ i <= Len(config.pvs)
    /\ ~PvFilteredOut(filtered_devices, config.pvs[i])
    /\ pvInstantiated' = pvInstantiated \cup {i}
    /\ \E results \in ResultLists :
          cur' = [kind |-> "pv",
                  name |-> PvDeviceName(config.pvs[i]),
                  severity |-> check_device_severity(results),
                  results |-> results]
    /\ yielded' = Append(yielded, [kind |-> "pv", idx |-> i,
                                    name |-> config.pvs[i]])
    /\ pc' = "log"
    /\ i' = i + 1
    /\ UNCHANGED <<document, filtered_devices, loggerLevel, gen, config,
                   deserialized, clientCreated, lookedUp, instantiated,
                   errorLogged, log, nLogCalls, raising, cleanedUp>>
    /\ UNCHANGED <<runVars, laterVars>>

ReturnNoDevices ==
    /\ InGenerator /\ gen = "pvs" /\ i > Len(config.pvs)
    /\ ~NeedsClient(config)
    /\ gen' = "returned"
    /\ pc' = "finally"
    /\ UNCHANGED <<document, filtered_devices, loggerLevel, i, config,
                   deserialized, yielded, cur, pvInstantiated, clientCreated,
                   lookedUp, instantiated, errorLogged, log, nLogCalls,
                   raising, cleanedUp>>
    /\ UNCHANGED <<runVars, laterVars>>

CreateClient ==
    /\ InGenerator /\ gen = "pvs" /\ i > Len(config.pvs)
    /\ NeedsClient(config)
    /\ clientCreated' = TRUE
    /\ gen' = "devs"
    /\ i' = 1
    /\ UNCHANGED <<document, filtered_devices, loggerLevel, pc, config,
                   deserialized, yielded, cur, pvInstantiated, lookedUp,
                   instantiated, errorLogged, log, nLogCalls, raising,
                   cleanedUp>>
    /\ UNCHANGED <<runVars, laterVars>>

AtDevice == InGenerator /\ gen = "devs" /\ i <= Len(config.devices)

DevSkip ==
    /\ AtDevice
    /\ DevFilteredOut(filtered_devices, DevKey(config, i))
    /\ i' = i + 1
    /\ UNCHANGED <<document, filtered_devices, loggerLevel, pc, gen, config,
                   deserialized, yielded, cur, pvInstantiated, clientCreated,
                   lookedUp, instantiated, errorLogged, log, nLogCalls,
                   raising, cleanedUp>>
    /\ UNCHANGED <<runVars, laterVars>>

\* client[dev_name] raises KeyError: logged, and the loop continues.
DevNotFound ==
    /\ AtDevice
    /\ ~DevFilteredOut(filtered_devices, DevKey(config, i))
    /\ lookedUp' = lookedUp \cup {DevKey(config, i)}
    /\ errorLogged' = errorLogged \cup {DevKey(config, i)}
    /\ i' = i + 1
    /\ UNCHANGED <<document, filtered_devices, loggerLevel, pc, gen, config,
                   deserialized, yielded, cur, pvInstantiated, clientCreated,
                   instantiated, log, nLogCalls, raising, cleanedUp>>
    /\ UNCHANGED <<runVars, laterVars>>

\* client[dev_name] raises an exception that is not a KeyError (the database
\* cannot be reached): no handler catches it, the generator ends with it and
\* it propagates through main's loop to the finally clause.
DevLookupRaises ==
    /\ AtDevice
    /\ ~DevFilteredOut(filtered_devices, DevKey(config, i))
    /\ lookedUp' = lookedUp \cup {DevKey(config, i)}
    /\ gen' = "raised"
    /\ raising' = TRUE
    /\ pc' = "finally"
    /\ UNCHANGED <<document, filtered_devices, loggerLevel, i, config,
                   deserialized, yielded, cur, pvInstantiated, clientCreated,
                   instantiated, errorLogged, log, nLogCalls, cleanedUp>>
    /\ UNCHANGED <<runVars, laterVars>>

\* search_result.get() raises an Exception: logged, and the loop continues.
DevInvalid ==
    /\ AtDevice
    /\ ~DevFilteredOut(filtered_devices, DevKey(config, i))
    /\ lookedUp' = lookedUp \cup {DevKey(config, i)}
    /\ instantiated' = instantiated \cup {DevKey(config, i)}
    /\ errorLogged' = errorLogged \cup {DevKey(config, i)}
    /\ i' = i + 1
    /\ UNCHANGED <<document, filtered_devices, loggerLevel, pc, gen, config,
                   deserialized, yielded, cur, pvInstantiated, clientCreated,
                   log, nLogCalls, raising, cleanedUp>>
    /\ UNCHANGED <<runVars, laterVars>>

DevCheck ==
    /\ AtDevice
    /\ ~DevFilteredOut(filtered_devices, DevKey(config, i))
    /\ lookedUp' = lookedUp \cup {DevKey(config, i)}
    /\ instantiated' = instantiated \cup {DevKey(config, i)}
    /\ \E results \in ResultLists :
          cur' = [kind |-> "dev",
                  name |-> DevKey(config, i),
                  severity |-> check_device_severity(results),
                  results |-> results]
    /\ yielded' = Append(yielded, [kind |-> "dev", idx |-> 0,
                                    name |-> DevKey(config, i)])
    /\ pc' = "log"
    /\ i' = i + 1
    /\ UNCHANGED <<document, filtered_devices, loggerLevel, gen, config,
                   deserialized, pvInstantiated, clientCreated, errorLogged,
                   log, nLogCalls, raising, cleanedUp>>
    /\ UNCHANGED <<runVars, laterVars>>

ReturnAfterDevices ==
    /\ InGenerator /\ gen = "devs" /\ i > Len(config.devices)
    /\ gen' = "returned"
    /\ pc' = "finally"
    /\ UNCHANGED <<document, filtered_devices, loggerLevel, i, config,
                   deserialized, yielded, cur, pvInstantiated, clientCreated,
                   lookedUp, instantiated, errorLogged, log, nLogCalls,
                   raising, cleanedUp>>
    /\ UNCHANGED <<runVars, laterVars>>

(***************************************************************************)
(* log_results                                                             *)
(***************************************************************************)
\* The module's default mapping from a result's severity to a logging level.
default_severity_to_log_level ==
    (success :> DEBUG) @@ (warning :> WARNING) @@ (error :> ERROR)
        @@ (internal_error :> ERROR)

\* logger.isEnabledFor(level)
isEnabledFor(level) == level >= loggerLevel

\* A log_results that takes the level of every line from the overall severity.
ResultLogLevelOfEntry(severity, result) ==
    default_severity_to_log_level[severity]

\* `log_level = severity_to_log_level[result.severity]`, for a result of an
\* entry whose overall severity is `severity`.
ResultLogLevel(severity, result) ==
    default_severity_to_log_level[result.severity]

\* `"passed" if severity <= Severity.warning else "FAILED"`
passed_or_failed(severity) == IF severity <= warning THEN "passed" ELSE "FAILED"

\* The records the `for result in results` loop emits for results[k..].
RECURSIVE ResultRecords(_, _, _)
ResultRecords(severity, results, k) ==
    IF k > Len(results) THEN <<>>
    ELSE LET level == ResultLogLevel(severity, results[k])
             rest == ResultRecords(severity, results, k + 1)
         IN  IF ~isEnabledFor(level) THEN rest
             ELSE <<[level |-> level, reason |-> results[k].reason,
                     verdict |-> ""]>> \o rest

\* All the records one log_results call emits: the summary line at INFO, then
\* the results' reasons.
LogRecords(severity, results) ==
    (IF isEnabledFor(INFO)
        THEN <<[level |-> INFO, reason |-> 0,
                verdict |-> passed_or_failed(severity)]>>
        ELSE <<>>)
    \o ResultRecords(severity, results, 1)

(***************************************************************************)
(* main                                                                    *)
(***************************************************************************)
\* A main that does not validate the document before the checkout starts.
DeserializesAnything(doc) == TRUE

\* Whether yaml.safe_load and apischema.deserialize accept the document.
Deserializes(doc) == doc.wellformed

\* `config = apischema.deserialize(ConfigurationFile, serialized_config)`, then
\* main enters the try block and asks the generator for its first entry.
DeserializeOk ==
    /\ pc = "start"
    /\ Deserializes(document)
    /\ config' = [pvs |-> document.pvs, devices |-> document.devices]
    /\ deserialized' = TRUE
    /\ pc' = "gen"
    /\ gen' = "pvs"
    /\ i' = 1
    /\ UNCHANGED <<document, filtered_devices, loggerLevel, yielded, cur,
                   pvInstantiated, clientCreated, lookedUp, instantiated,
                   errorLogged, log, nLogCalls, raising, cleanedUp>>
    /\ UNCHANGED <<runVars, laterVars>>

\* Deserialization raises before the try block: main ends with the exception.
DeserializeFails ==
    /\ pc = "start"
    /\ ~Deserializes(document)
    /\ pc' = "raised"
    /\ UNCHANGED <<document, filtered_devices, loggerLevel, gen, i, config,
                   deserialized, yielded, cur, pvInstantiated, clientCreated,
                   lookedUp, instantiated, errorLogged, log, nLogCalls,
                   raising, cleanedUp>>
    /\ UNCHANGED <<runVars, laterVars>>

\* The body of main's for loop: log_results for the entry just yielded, then
\* the generator is resumed.
LogResults ==
    /\ pc = "log"
    /\ log' = LogRecords(cur.severity, cur.results)
    /\ nLogCalls' = nLogCalls + 1
    /\ pc' = "gen"
    /\ UNCHANGED <<document, filtered_devices, loggerLevel, gen, i, config,
                   deserialized, yielded, cur, pvInstantiated, clientCreated,
                   lookedUp, instantiated, errorLogged, raising, cleanedUp>>
    /\ UNCHANGED <<runVars, laterVars>>

\* `finally: if cleanup: ophyd_cleanup()`, then main returns or the exception
\* goes on.
Cleanup ==
    /\ pc = "finally"
    /\ \E cleanup \in BOOLEAN : cleanedUp' = cleanup
    /\ pc' = IF raising THEN "raised" ELSE "done"
    /\ UNCHANGED <<document, filtered_devices, loggerLevel, gen, i, config,
                   deserialized, yielded, cur, pvInstantiated, clientCreated,
                   lookedUp, instantiated, errorLogged, log, nLogCalls,
                   raising>>
    /\ UNCHANGED <<runVars, laterVars>>

\* The severity main reports for the run as a whole.  main has no return
\* statement and nothing follows its loop but the cleanup: no overall severity
\* is computed, returned or logged.
NotReported == -1
overall_severity == NotReported

\* No checkout run is using a Result Cache.
CacheIdle ==
    /\ rcKey = <<>>
    /\ rcEntry = <<>>
    /\ rcFetches = <<>>
    /\ rcPc = <<>>
    /\ rcGot = <<>>
    /\ rcRun = 0

\* No prepared tree is being evaluated.
GroupIdle ==
    /\ grpParent = <<>>
    /\ grpResult = <<>>

\* None, where a widget may stand.
NoWidget == 0

\* The widget self.trees['edit'].
EditWidget == -1

\* No DualTree holds the edit tree.
DualIdle ==
    /\ dualPc = "none"
    /\ mode = "edit"
    /\ run_tree = NoWidget
    /\ run_config = "None"
    /\ layout = <<>>
    /\ visible = {}
    /\ dualCaller = "none"
    /\ dualBefore = 0

\* No EditTree shows its pages.
EditIdle ==
    /\ itemCount = 0
    /\ currentItem = 0
    /\ last_selection = 0
    /\ built_widgets = {}
    /\ splitterPage = 0
    /\ pageVisible = {}

\* No item is being paired.
MatchIdle ==
    /\ matchFile = [isConfig |-> TRUE, rootName |-> "root",
                    nodes |-> <<[kind |-> "group", val |-> "r"]>>]
    /\ matchItem = 1
    /\ matchPaired = [pf |-> 0, node |-> 0]
    /\ matchPc = "start"

\* No Window is open.
WinIdle ==
    /\ tabs = <<>>
    /\ currentTab = 0
    /\ lastCall = [op |-> "none", outcome |-> "none", tab |-> 0,
                   filename |-> [dir |-> "<None>", parts |-> <<>>],
                   data |-> "none"]

\* No StringListWithDialog exists.
ListIdle ==
    /\ given_list = <<>>
    /\ data_list = <<>>
    /\ list_strings = <<>>
    /\ allow_duplicates = FALSE
    /\ removeRaises = TRUE
    /\ listPc = "none"
    /\ lastEdit = [old_items |-> <<>>, new_items |-> <<>>, before |-> <<>>]

\* The components added after the command line and the RunTree are not running.
LaterIdle ==
    /\ CacheIdle /\ GroupIdle /\ DualIdle /\ EditIdle /\ MatchIdle /\ WinIdle
    /\ ListIdle

\* The configuration GUI is not running.
RunIdle ==
    /\ cfgFile = [isConfig |-> TRUE, rootName |-> "root",
                  nodes |-> <<[kind |-> "group", val |-> "r"]>>]
    /\ caches = 0
    /\ prepared = <<>>
    /\ trees = <<>>
    /\ rpc = "idle"
    /\ ri = 1

Init ==
    /\ RunIdle
    /\ LaterIdle
    /\ document \in Documents
    /\ filtered_devices \in FilterArgs
    /\ loggerLevel \in LogLevels
    /\ pc = "start"
    /\ gen = "notstarted"
    /\ i = 1
    /\ config = [pvs |-> <<>>, devices |-> <<>>]
    /\ deserialized = FALSE
    /\ yielded = <<>>
    /\ cur = NoEntry
    /\ pvInstantiated = {}
    /\ clientCreated = FALSE
    /\ lookedUp = {}
    /\ instantiated = {}
    /\ errorLogged = {}
    /\ log = <<>>
    /\ nLogCalls = 0
    /\ raising = FALSE
    /\ cleanedUp = FALSE

Next ==
    \/ DeserializeOk
    \/ DeserializeFails
    \/ PvSkip
    \/ PvCheck
    \/ ReturnNoDevices
    \/ CreateClient
    \/ DevSkip
    \/ DevNotFound
    \/ DevLookupRaises
    \/ DevInvalid
    \/ DevCheck
    \/ ReturnAfterDevices
    \/ LogResults
    \/ Cleanup

Spec == Init /\ [][Next]_vars

\* log_results on its own: main's loop body has just been entered with an
\* entry for the PV configuration "A", whose results are any list.
InitLog ==
    /\ RunIdle
    /\ LaterIdle
    /\ document = [wellformed |-> TRUE, pvs |-> <<"A">>, devices |-> <<>>]
    /\ filtered_devices = [supplied |-> FALSE, names |-> {}]
    /\ loggerLevel \in LogLevels
    /\ pc = "log"
    /\ gen = "pvs"
    /\ i = 2
    /\ config = [pvs |-> <<"A">>, devices |-> <<>>]
    /\ deserialized = TRUE
    /\ yielded = <<[kind |-> "pv", idx |-> 1, name |-> "A"]>>
    /\ \E results \in LoggedResultLists :
          cur = [kind |-> "pv", name |-> "A",
                 severity |-> check_device_severity(results),
                 results |-> results]
    /\ pvInstantiated = {1}
    /\ clientCreated = FALSE
    /\ lookedUp = {}
    /\ instantiated = {}
    /\ errorLogged = {}
    /\ log = <<>>
    /\ nLogCalls = 0
    /\ raising = FALSE
    /\ cleanedUp = FALSE

NextLog == LogResults

SpecLog == InitLog /\ [][NextLog]_vars

(***************************************************************************)
(* Properties of check_config_file, log_results and main                   *)
(***************************************************************************)
\* The position of x in s (x occurs in s).
IndexOf(s, x) == CHOOSE k \in DOMAIN s : s[k] = x

\* Whether an entry was yielded for the device configuration named n.
HasDeviceEntry(n) ==
    \E k \in DOMAIN yielded : yielded[k].kind = "dev" /\ yielded[k].name = n

\* The device names check_config_file retains.
RetainedDevices ==
    {n \in Range(config.devices) :
        ~(Truthy(filtered_devices) /\ n \notin filtered_devices.names)}

\* The devices whose resolution failed: the lookup or the instantiation raised.
ResolutionFailed ==
    errorLogged \cup {n \in lookedUp : n \notin instantiated}

MainEnded == pc \in {"done", "raised"}

\* C1: with a non-empty filtered_devices, every entry yielded belongs to a PV
\* or device configuration whose name is in filtered_devices.
C1_OnlyFilteredNamesYielded ==
    Truthy(filtered_devices) =>
        \A k \in DOMAIN yielded : yielded[k].name \in filtered_devices.names

\* A finished run with a filter that kept an entry and dropped a PV and a
\* device configuration.
C1_Witness ==
    /\ pc = "done"
    /\ Truthy(filtered_devices)
    /\ yielded # <<>>
    /\ \E k \in DOMAIN config.pvs : config.pvs[k] \notin filtered_devices.names
    /\ \E k \in DOMAIN config.devices :
          config.devices[k] \notin filtered_devices.names

\* C2: a device whose resolution failed (unknown name, or instantiating it
\* raised) still has an entry among those yielded (and its severity is error).
C2_FailedDeviceHasErrorEntry ==
    \A n \in errorLogged : HasDeviceEntry(n)

\* C3: a resolution error for one device never aborts check_config_file: when
\* main has ended no exception came out of the loop, and every retained device
\* that resolved has been yielded.
C3_ResolutionErrorNeverAborts ==
    (MainEnded /\ deserialized) =>
        /\ ~raising
        /\ \A n \in RetainedDevices :
              n \in ResolutionFailed \/ HasDeviceEntry(n)

\* C4 as claimed: for a supplied (non-empty) filtered_devices no device
\* outside it is looked up or instantiated, and no device-database access at
\* all happens on behalf of filtered-out devices: when every device of the
\* file is filtered out the database is not touched.
C4_NoDatabaseAccessForFilteredOut ==
    Truthy(filtered_devices) =>
        /\ (lookedUp \cup instantiated) \subseteq filtered_devices.names
        /\ (Range(config.devices) \cap filtered_devices.names = {}) =>
              ~clientCreated

\* C4 as amended: for a non-empty filtered_devices no device outside it is
\* looked up or instantiated; the client itself is created as soon as the PV
\* loop is over whenever config.devices is not empty, filtered out or not.
C4_FilterBeforeResolverCalls ==
    /\ Truthy(filtered_devices) =>
          (lookedUp \cup instantiated) \subseteq filtered_devices.names
    /\ gen \in {"devs", "returned", "raised"} =>
          (clientCreated <=> config.devices # <<>>)

\* A finished run in which the filter dropped one device and another one was
\* looked up.
C4_Witness ==
    /\ pc = "done"
    /\ Truthy(filtered_devices)
    /\ \E k \in DOMAIN config.devices :
          config.devices[k] \notin filtered_devices.names
    /\ lookedUp # {}

\* The place in the document of the configuration an entry was yielded for.
DocumentPosition(e) ==
    IF e.kind = "pv" THEN e.idx
    ELSE Len(config.pvs) + IndexOf(config.devices, e.name)

\* C5: the entries are yielded in document order (config.pvs in sequence
\* order, then config.devices in the order of the mapping), none twice.
C5_DocumentOrder ==
    \A a, b \in DOMAIN yielded :
        a < b => DocumentPosition(yielded[a]) < DocumentPosition(yielded[b])

\* A finished run that yielded a PV entry and two device entries.
C5_Witness ==
    /\ pc = "done"
    /\ \E a, b, c \in DOMAIN yielded :
          /\ a < b /\ b < c
          /\ yielded[a].kind = "pv"
          /\ yielded[b].kind = "dev" /\ yielded[c].kind = "dev"

\* C6: no device-database client is created or queried while the entries for
\* config.pvs are produced, and none is created at all when the file has no
\* device configurations.
C6_PvOnlyNeverUsesDatabase ==
    /\ gen \in {"notstarted", "pvs"} =>
          ~clientCreated /\ lookedUp = {} /\ instantiated = {}
    /\ (deserialized /\ config.devices = <<>>) => ~clientCreated

\* A finished run of a file with PV configurations only, all of them checked.
C6_Witness ==
    /\ pc = "done"
    /\ config.devices = <<>>
    /\ Len(config.pvs) = MaxPvs
    /\ Len(yielded) = MaxPvs

\* C7: when the document does not deserialize, main raises before entering
\* check_config_file: nothing is instantiated, resolved, checked or logged.
C7_MalformedDocumentIsFatal ==
    ~document.wellformed =>
        /\ pc \in {"start", "raised"}
        /\ ~deserialized
        /\ gen = "notstarted"
        /\ pvInstantiated = {} /\ lookedUp = {} /\ instantiated = {}
        /\ ~clientCreated
        /\ yielded = <<>>
        /\ nLogCalls = 0 /\ log = <<>>

\* main has raised on a malformed document that names PVs and devices.
C7_Witness ==
    /\ pc = "raised"
    /\ ~document.wellformed
    /\ document.pvs # <<>>
    /\ document.devices # <<>>

\* The records of the log that carry the reason of result k.
RecordsOf(k) == {j \in DOMAIN log : log[j].reason = k}

\* C8: log_results logs each result's reason at the level mapped from that
\* result's own severity (once, in the order of the results, when the logger
\* is enabled for that level), and the default mapping is total: success to
\* DEBUG, warning to WARNING, error and internal_error to ERROR.
C8_LogLevelFromOwnSeverity ==
    /\ DOMAIN default_severity_to_log_level = Severity
    /\ default_severity_to_log_level[success] = DEBUG
    /\ default_severity_to_log_level[warning] = WARNING
    /\ default_severity_to_log_level[error] = ERROR
    /\ default_severity_to_log_level[internal_error] = ERROR
    /\ (nLogCalls > 0 /\ pc # "log") =>
          /\ \A k \in DOMAIN cur.results :
                LET level ==
                        default_severity_to_log_level[cur.results[k].severity]
                IN  IF level >= loggerLevel
                       THEN /\ Cardinality(RecordsOf(k)) = 1
                            /\ \A j \in RecordsOf(k) : log[j].level = level
                       ELSE RecordsOf(k) = {}
          /\ \A a, b \in DOMAIN log :
                (a < b /\ log[a].reason > 0) => log[a].reason < log[b].reason

\* log_results has logged a list of results of different severities, some of
\* them below the logger's level.
C8_Witness ==
    /\ nLogCalls > 0 /\ pc # "log"
    /\ Len(cur.results) >= 2
    /\ \E a, b \in DOMAIN cur.results :
          /\ cur.results[a].severity # cur.results[b].severity
          /\ RecordsOf(a) = {} /\ RecordsOf(b) # {}

\* C14: the overall severity the command line reports for a run is the
\* maximum severity over the entries yielded; for a run that yielded one
\* entry that maximum is the entry's own severity.
C14_OverallSeverityIsMax ==
    (pc = "done" /\ Len(yielded) = 1) => overall_severity = cur.severity

(***************************************************************************)
(* RunTree (atef/widgets/config/window.py)                                 *)
(***************************************************************************)
MaxNodes == 3
MaxRunTrees == 2

\* A file is its root group and the groups and comparisons below it.  A node
\* is an object (its place in nodes) with a value; two nodes can be equal by
\* value, but nothing below the root equals the root, which contains it.
NodeValues == {"x", "y"}
RootNode == [kind |-> "group", val |-> "r"]
ChildNodes == [kind : {"group", "comparison"}, val : NodeValues]
Files ==
    [isConfig : BOOLEAN,
     rootName : {"", "root"},
     nodes : {<<RootNode>> \o c : c \in SeqsUpTo(ChildNodes, MaxNodes - 1)}]

\* The files once assemble_tree has named the root group.
NamedFiles == {f \in Files : f.rootName # ""}

\* What a run page is given: a prepared node (node `node` of PreparedFile
\* `pf`), a plain configuration node (pf = 0) or None.
NoneRef == [pf |-> 0, node |-> 0]
ConfigRef(n) == [pf |-> 0, node |-> n]
PreparedRef(p, n) == [pf |-> p, node |-> n]

\* The cache PreparedFile.from_config is called without in _swap_to_run_widgets
\* is one it takes by default: a DataCache of its own (the next new one) or
\* one shared by such calls (0).
SharedCache == 0
DefaultCaches == {SharedCache, caches + 1}

\* The nodes of the given kind, in document order.
RECURSIVE NodesOfKind(_, _, _)
NodesOfKind(nodes, kind, n) ==
    IF n > Len(nodes) THEN <<>>
    ELSE (IF nodes[n].kind = kind THEN <<n>> ELSE <<>>)
            \o NodesOfKind(nodes, kind, n + 1)

\* PreparedFile.walk_groups and walk_comparisons: one prepared node per
\* configuration node, in the order of the configuration.
walk_groups(file) == NodesOfKind(file.nodes, "group", 1)
walk_comparisons(file) == NodesOfKind(file.nodes, "comparison", 1)

\* The two appending loops of _swap_to_run_widgets: the walked nodes, groups
\* first; config_list holds their configurations, prep_list the nodes.
WalkedNodes(file) ==
    IF file.isConfig THEN walk_groups(file) \o walk_comparisons(file)
    ELSE <<>>
config_list(file) == [j \in DOMAIN WalkedNodes(file) |->
                          file.nodes[WalkedNodes(file)[j]]]
prep_list(file, p) == [j \in DOMAIN WalkedNodes(file) |->
                          PreparedRef(p, WalkedNodes(file)[j])]

\* match_in_list_mapping: list2 at the first index where list1 equals value,
\* None when value is not in list1.
match_in_list_mapping(value, list1, list2) ==
    IF \A j \in DOMAIN list1 : list1[j] # value THEN NoneRef
    ELSE LET first == CHOOSE j \in DOMAIN list1 :
                          /\ list1[j] = value
                          /\ \A h \in 1..(j - 1) : list1[h] # value
         IN  list2[first]

\* The body of `while it.value()` for the item whose page shows node n of
\* file: the item is paired with the prepared node of PreparedFile p matching
\* the data of its page, or with the data itself when nothing was prepared.
PairedWith(file, p, n) ==
    LET configs == config_list(file)
        preps == prep_list(file, p)
        prep_cfg == match_in_list_mapping(file.nodes[n], configs, preps)
    IN  IF configs # <<>> /\ preps # <<>> THEN prep_cfg ELSE ConfigRef(n)

ThisTree == Len(trees)

\* The ConfigurationFile object the edit tree holds; from_edit_tree hands the
\* same object to the RunTree.
EditTreeFile == "edit_tree.config_file"

\* The value of the ConfigurationFile object behind a reference.
FileAt(ref) == cfgFile

\* A RunTree is constructed on its own, or by the build_run_tree that is
\* under way in the DualTree.
ConstructionRequested ==
    \/ dualPc = "none"
    \/ dualPc = "construct" /\ Len(trees) = dualBefore

\* RunTree.__init__ up to the call of _swap_to_run_widgets: EditTree.__init__
\* (assemble_tree names an unnamed root group 'root' and creates the root
\* item, whose page shows the root group), then self.prepared_file is
\* prepared with a new DataCache when the file is a ConfigurationFile.
\* built_from is the content of the file the tree is made from.
RunTreeInit ==
    /\ rpc = "idle"
    /\ ConstructionRequested
    /\ Len(trees) < MaxRunTrees
    /\ cfgFile' = [cfgFile EXCEPT
                      !.rootName = IF @ = "" THEN "root" ELSE @]
    /\ IF cfgFile.isConfig
          THEN /\ caches' = caches + 1
               /\ prepared' = Append(prepared,
                      [cache |-> caches + 1, tree |-> Len(trees) + 1])
               /\ trees' = Append(trees,
                      [prepared_file |-> Len(prepared) + 1, swap_file |-> 0,
                       items |-> <<1>>, item_config_list |-> <<>>,
                       pages |-> <<>>, built |-> FALSE,
                       config_file |-> EditTreeFile,
                       built_from |-> cfgFile'])
          ELSE /\ trees' = Append(trees,
                      [prepared_file |-> 0, swap_file |-> 0,
                       items |-> <<1>>, item_config_list |-> <<>>,
                       pages |-> <<>>, built |-> FALSE,
                       config_file |-> EditTreeFile,
                       built_from |-> cfgFile'])
               /\ UNCHANGED <<caches, prepared>>
    /\ rpc' = "swap"
    /\ ri' = 1
    /\ UNCHANGED <<checkVars, laterVars>>

\* _swap_to_run_widgets up to the walk of the tree: a ConfigurationFile is
\* prepared again, without a cache argument, into the local prepared_file.
SwapPrepare ==
    /\ rpc = "swap"
    /\ IF cfgFile.isConfig
          THEN \E c \in DefaultCaches :
                 /\ caches' = IF c = SharedCache THEN caches ELSE c
                 /\ prepared' = Append(prepared,
                        [cache |-> c, tree |-> ThisTree])
                 /\ trees' = [trees EXCEPT
                        ![ThisTree].swap_file = Len(prepared) + 1]
          ELSE UNCHANGED <<caches, prepared, trees>>
    /\ rpc' = "match"
    /\ ri' = 1
    /\ UNCHANGED cfgFile
    /\ UNCHANGED <<checkVars, laterVars>>

\* One round of `while it.value()`: the item is paired with the prepared node
\* matching its page's data, or with the data itself when nothing was prepared.
SwapMatch ==
    /\ rpc = "match"
    /\ LET t == trees[ThisTree]
           cfg == PairedWith(cfgFile, t.swap_file, t.items[ri])
       IN  /\ trees' = [trees EXCEPT ![ThisTree].item_config_list =
                                          Append(@, cfg)]
           /\ IF ri < Len(t.items)
                 THEN ri' = ri + 1 /\ rpc' = "match"
                 ELSE ri' = 1 /\ rpc' = "pages"
    /\ UNCHANGED <<cfgFile, caches, prepared>>
    /\ UNCHANGED <<checkVars, laterVars>>

\* One round of `for item, cfg in item_config_list`: no page is a key of
\* _edit_to_run_page (its keys are classes), so make_run_page builds the run
\* page of the item from cfg and it is linked to the item.
SwapPage ==
    /\ rpc = "pages"
    /\ LET t == trees[ThisTree]
       IN  /\ trees' = [trees EXCEPT
                  ![ThisTree].pages = Append(@, t.item_config_list[ri]),
                  ![ThisTree].built = (ri = Len(t.items))]
           /\ IF ri < Len(t.items)
                 THEN ri' = ri + 1 /\ rpc' = "pages"
                 ELSE ri' = 1 /\ rpc' = "idle"
    /\ UNCHANGED <<cfgFile, caches, prepared>>
    /\ UNCHANGED <<checkVars, laterVars>>

\* The command line is not running.
CheckIdle ==
    /\ document = [wellformed |-> TRUE, pvs |-> <<>>, devices |-> <<>>]
    /\ filtered_devices = [supplied |-> FALSE, names |-> {}]
    /\ loggerLevel = WARNING
    /\ pc = "start"
    /\ gen = "notstarted"
    /\ i = 1
    /\ config = [pvs |-> <<>>, devices |-> <<>>]
    /\ deserialized = FALSE
    /\ yielded = <<>>
    /\ cur = NoEntry
    /\ pvInstantiated = {}
    /\ clientCreated = FALSE
    /\ lookedUp = {}
    /\ instantiated = {}
    /\ errorLogged = {}
    /\ log = <<>>
    /\ nLogCalls = 0
    /\ raising = FALSE
    /\ cleanedUp = FALSE

\* An edit tree holds a file; run trees are built from it one after another.
InitRunTree ==
    /\ CheckIdle
    /\ LaterIdle
    /\ cfgFile \in Files
    /\ caches = 0
    /\ prepared = <<>>
    /\ trees = <<>>
    /\ rpc = "idle"
    /\ ri = 1

NextRunTree ==
    \/ RunTreeInit
    \/ SwapPrepare
    \/ SwapMatch
    \/ SwapPage

SpecRunTree == InitRunTree /\ [][NextRunTree]_vars

(***************************************************************************)
(* Properties of RunTree                                                   *)
(***************************************************************************)
\* The RunTrees whose construction is over, built from a ConfigurationFile.
BuiltTrees == {t \in DOMAIN trees : trees[t].built /\ cfgFile.isConfig}

\* The cache RunTree t created for self.prepared_file.
OwnCache(t) == prepared[trees[t].prepared_file].cache

\* C9: each RunTree prepares the configuration with a newly created DataCache
\* no other RunTree uses, and every prepared node handed to its run pages was
\* prepared with that same cache.
C9_RunPagesUseTheFreshCache ==
    \A t \in BuiltTrees :
        /\ \A u \in BuiltTrees : u # t => OwnCache(u) # OwnCache(t)
        /\ \A j \in DOMAIN trees[t].pages :
              /\ trees[t].pages[j].pf # 0
              /\ prepared[trees[t].pages[j].pf].cache = OwnCache(t)

\* C10: within one RunTree the configuration is prepared once, and the
\* prepared nodes bound to the run pages are nodes of self.prepared_file.
C10_OnePreparedFilePerRunTree ==
    \A t \in BuiltTrees :
        /\ Cardinality({p \in DOMAIN prepared : prepared[p].tree = t}) = 1
        /\ \A j \in DOMAIN trees[t].pages :
              trees[t].pages[j].pf = trees[t].prepared_file

\* C11: building derived state (an EditTree or RunTree with its tree, its
\* PreparedFile and its run pages) changes no field of the ConfigurationFile
\* or of a configuration node in it.
C11_ConfigurationNeverMutated == [][cfgFile' = cfgFile]_vars

(***************************************************************************)
(* Result Cache (atef.cache.DataCache, created at window.py:353).  The      *)
(* class is not part of the sources at hand; its contract get_or_fetch is   *)
(* modelled from sections 4.4 and 5 of the specification.                   *)
(***************************************************************************)

MaxRequesters == 3
MaxRuns == 2

\* The (identity, attribute) pairs the comparisons of a run reference.
CacheKeys == {"dev.attr", "PV"}

Requesters == 1..MaxRequesters

\* A request issues a live fetch only for a pair the run has neither
\* fetched nor is fetching.
IssuesFetchUnlessCached(entry) == entry \in {"absent", "inflight"}

IssuesFetch(entry) == entry = "absent"

\* A request for a pair whose fetch is under way joins that fetch.
JoinsFetch(entry) == entry = "inflight"

\* The outcome a resolved cache entry gives its requesters: the fetched value,
\* or the cached failure sentinel.
CachedOutcome(entry) == IF entry = "failure" THEN "FetchError" ELSE "value"

\* get_or_fetch(identity, attribute), up to the fetch boundary.
GetOrFetch(r) ==
    /\ rcPc[r] = "start"
    /\ LET k == rcKey[r] IN
        IF IssuesFetch(rcEntry[k])
        THEN /\ rcEntry' = [rcEntry EXCEPT ![k] = "inflight"]
             /\ rcFetches' = [rcFetches EXCEPT ![k] = @ + 1]
             /\ rcPc' = [rcPc EXCEPT ![r] = "waiting"]
             /\ UNCHANGED rcGot
        ELSE IF JoinsFetch(rcEntry[k])
        THEN /\ rcPc' = [rcPc EXCEPT ![r] = "waiting"]
             /\ UNCHANGED <<rcEntry, rcFetches, rcGot>>
        ELSE /\ rcPc' = [rcPc EXCEPT ![r] = "done"]
             /\ rcGot' = [rcGot EXCEPT ![r] = CachedOutcome(rcEntry[k])]
             /\ UNCHANGED <<rcEntry, rcFetches>>
    /\ UNCHANGED <<rcKey, rcRun>>
    /\ UNCHANGED exceptCache

\* The round trip to the device layer comes back with a value.
FetchReturns(k) ==
    /\ rcEntry[k] = "inflight"
    /\ rcEntry' = [rcEntry EXCEPT ![k] = "value"]
    /\ UNCHANGED <<rcKey, rcFetches, rcPc, rcGot, rcRun>>
    /\ UNCHANGED exceptCache

\* The round trip times out or the signal is disconnected: the failure is
\* cached as a sentinel.
FetchFails(k) ==
    /\ rcEntry[k] = "inflight"
    /\ rcEntry' = [rcEntry EXCEPT ![k] = "failure"]
    /\ UNCHANGED <<rcKey, rcFetches, rcPc, rcGot, rcRun>>
    /\ UNCHANGED exceptCache

\* A requester blocked on a fetch resumes with its outcome.
FetchDelivered(r) ==
    /\ rcPc[r] = "waiting"
    /\ rcEntry[rcKey[r]] \in {"value", "failure"}
    /\ rcPc' = [rcPc EXCEPT ![r] = "done"]
    /\ rcGot' = [rcGot EXCEPT ![r] = CachedOutcome(rcEntry[rcKey[r]])]
    /\ UNCHANGED <<rcKey, rcEntry, rcFetches, rcRun>>
    /\ UNCHANGED exceptCache

\* A new checkout run starts from an empty cache.
NewRun ==
    /\ \A r \in Requesters : rcPc[r] = "done"
    /\ rcRun < MaxRuns
    /\ rcRun' = rcRun + 1
    /\ rcKey' \in [Requesters -> CacheKeys]
    /\ rcEntry' = [k \in CacheKeys |-> "absent"]
    /\ rcFetches' = [k \in CacheKeys |-> 0]
    /\ rcPc' = [r \in Requesters |-> "start"]
    /\ rcGot' = [r \in Requesters |-> "nothing"]
    /\ UNCHANGED exceptCache

InitCache ==
    /\ CheckIdle
    /\ RunIdle
    /\ GroupIdle
    /\ DualIdle
    /\ EditIdle
    /\ MatchIdle
    /\ WinIdle
    /\ ListIdle
    /\ rcRun = 1
    /\ rcKey \in [Requesters -> CacheKeys]
    /\ rcEntry = [k \in CacheKeys |-> "absent"]
    /\ rcFetches = [k \in CacheKeys |-> 0]
    /\ rcPc = [r \in Requesters |-> "start"]
    /\ rcGot = [r \in Requesters |-> "nothing"]

NextCache ==
    \/ \E r \in Requesters : GetOrFetch(r)
    \/ \E k \in CacheKeys : FetchReturns(k)
    \/ \E k \in CacheKeys : FetchFails(k)
    \/ \E r \in Requesters : FetchDelivered(r)
    \/ NewRun

SpecCache == InitCache /\ [][NextCache]_vars

\* C12: within one checkout run at most one live fetch is issued per
\* (identity, attribute) pair, whatever the number of requesters and however
\* they interleave; a requester of a pair that was fetched has its outcome
\* from that one fetch.
C12_AtMostOneFetchPerPair ==
    /\ \A k \in CacheKeys : rcFetches[k] <= 1
    /\ \A r \in Requesters :
        rcPc[r] = "done" =>
            /\ rcFetches[rcKey[r]] = 1
            /\ rcGot[r] = CachedOutcome(rcEntry[rcKey[r]])

\* Every requester references one pair: one request issued the fetch and a
\* second joined it while it is in flight.
C12_Witness ==
    /\ \A r \in Requesters : rcKey[r] = "PV"
    /\ rcPc[1] = "waiting"
    /\ rcPc[2] = "waiting"
    /\ rcEntry["PV"] = "inflight"
    /\ rcFetches["PV"] = 1

(***************************************************************************)
(* Evaluation/Aggregation Pass.  The evaluation of prepared groups is not   *)
(* part of the sources at hand; it is modelled from sections 4.3 and 5 of   *)
(* the specification.                                                       *)
(***************************************************************************)

MaxTreeNodes == 4

\* The prepared nodes in document order; node 1 is the root group.
TreeNodes == 1..MaxTreeNodes

\* The shapes of a prepared tree: every node but the root lies in a node
\* that precedes it in the document.
TreeShapes ==
    {p \in [TreeNodes -> 0..MaxTreeNodes] :
        /\ p[1] = 0
        /\ \A n \in TreeNodes \ {1} : p[n] \in 1..(n - 1)}

NoResult == [has |-> FALSE, severity |-> success]

Children(g) == {n \in TreeNodes : grpParent[n] = g}

IsGroup(n) == Children(n) # {}

\* The results of the children of g among the nodes n.., in document order.
RECURSIVE ChildResults(_, _)
ChildResults(g, n) ==
    IF n > MaxTreeNodes THEN <<>>
    ELSE (IF grpParent[n] = g THEN <<grpResult[n]>> ELSE <<>>)
            \o ChildResults(g, n + 1)

\* The join barrier of a group: some child has a Result.
SomeChildHasResult(g) == \E c \in Children(g) : grpResult[c].has

\* The join barrier of a group: ALL children have Results.
AllChildrenHaveResults(g) == \A c \in Children(g) : grpResult[c].has

\* The default "worst-case" aggregation policy: the maximum severity among
\* the children.
GroupSeverity(results) == MaxSeverity(results, Len(results))

\* A prepared leaf is evaluated: its comparisons give it a severity.
EvaluateLeaf(n) ==
    /\ ~IsGroup(n)
    /\ ~grpResult[n].has
    /\ \E s \in Severity :
        grpResult' = [grpResult EXCEPT ![n] = [has |-> TRUE, severity |-> s]]
    /\ UNCHANGED grpParent
    /\ UNCHANGED exceptGroup

\* The Result of a prepared group is folded from its children's.
ComputeGroup(g) ==
    /\ IsGroup(g)
    /\ ~grpResult[g].has
    /\ AllChildrenHaveResults(g)
    /\ grpResult' = [grpResult EXCEPT ![g] =
            [has |-> TRUE, severity |-> GroupSeverity(ChildResults(g, 1))]]
    /\ UNCHANGED grpParent
    /\ UNCHANGED exceptGroup

InitGroup ==
    /\ CheckIdle
    /\ RunIdle
    /\ CacheIdle
    /\ DualIdle
    /\ EditIdle
    /\ MatchIdle
    /\ WinIdle
    /\ ListIdle
    /\ grpParent \in TreeShapes
    /\ grpResult = [n \in TreeNodes |-> NoResult]

NextGroup ==
    \/ \E n \in TreeNodes : EvaluateLeaf(n)
    \/ \E g \in TreeNodes : ComputeGroup(g)

SpecGroup == InitGroup /\ [][NextGroup]_vars

\* C13: a group has a result only when every one of its children has one;
\* its severity is the maximum of its children's severities in the order
\* success < warning < error < internal_error; with one more child of any
\* severity the severity of the group would not be lower.
C13_GroupAfterChildrenWithMaxSeverity ==
    \A g \in TreeNodes :
        (IsGroup(g) /\ grpResult[g].has) =>
            /\ \A c \in Children(g) :
                /\ grpResult[c].has
                /\ grpResult[c].severity <= grpResult[g].severity
            /\ \E c \in Children(g) :
                grpResult[c].severity = grpResult[g].severity
            /\ \A s \in Severity :
                GroupSeverity(Append(ChildResults(g, 1),
                                     [has |-> TRUE, severity |-> s]))
                    >= grpResult[g].severity

\* The root group holds a successful leaf and a group whose leaf gave
\* error: the inner group and the root both have severity error.
C13_Witness ==
    /\ grpParent = <<0, 1, 1, 3>>
    /\ grpResult[2] = [has |-> TRUE, severity |-> success]
    /\ grpResult[4] = [has |-> TRUE, severity |-> error]
    /\ grpResult[3] = [has |-> TRUE, severity |-> error]
    /\ grpResult[1] = [has |-> TRUE, severity |-> error]

(***************************************************************************)
(* DualTree (atef/widgets/config/window.py).  The methods run one at a      *)
(* time on the GUI thread; dualPc is the position in the running method.    *)
(***************************************************************************)

\* self.trees[m]
TreeOf(m) == IF m = "edit" THEN EditWidget ELSE run_tree

\* The first loop of show_widgets, which hides nothing.
NothingHidden(shown) == shown

\* The first loop of show_widgets: every tree that exists is hidden.
HiddenByShowWidgets(shown) == shown \ {EditWidget, run_tree}

\* The test of build_run_tree that never finds the configuration unchanged.
RunConfigAlwaysChanged(tree, cfg) == FALSE

\* `self.trees['run'].config_file == self.run_config`: the two files are
\* compared by value.
RunConfigUnchanged(tree, cfg) == FileAt(tree.config_file) = FileAt(cfg)

\* switch_mode, up to the call of show_widgets.
SwitchMode ==
    /\ dualPc = "idle"
    /\ mode' = IF mode = "edit" THEN "run" ELSE "edit"
    /\ dualPc' = "hide"
    /\ UNCHANGED <<run_tree, run_config, layout, visible, dualCaller,
                   dualBefore>>
    /\ UNCHANGED <<runVars, exceptDual>>

\* show_widgets, up to `if self.trees[self.mode] is None`.
HideAll ==
    /\ dualPc = "hide"
    /\ visible' = HiddenByShowWidgets(visible)
    /\ IF TreeOf(mode) = NoWidget
          THEN dualPc' = "build" /\ dualCaller' = "show_widgets"
          ELSE dualPc' = "show" /\ UNCHANGED dualCaller
    /\ UNCHANGED <<mode, run_tree, run_config, layout, dualBefore>>
    /\ UNCHANGED <<runVars, exceptDual>>

\* get_tree() in run mode: the RunTree's config_file is an object and so
\* true, build_run_tree is called.  In edit mode get_tree changes nothing.
GetTree ==
    /\ dualPc = "idle"
    /\ mode = "run"
    /\ dualPc' = "build"
    /\ dualCaller' = "get_tree"
    /\ UNCHANGED <<mode, run_tree, run_config, layout, visible, dualBefore>>
    /\ UNCHANGED <<runVars, exceptDual>>

\* build_run_tree, up to RunTree.from_edit_tree.
BuildRunTree ==
    /\ dualPc = "build"
    /\ run_config' = EditTreeFile
    /\ IF run_tree # NoWidget /\ RunConfigUnchanged(trees[run_tree], EditTreeFile)
          THEN dualPc' = "unchanged" /\ UNCHANGED dualBefore
          ELSE dualPc' = "construct" /\ dualBefore' = Len(trees)
    /\ UNCHANGED <<mode, run_tree, layout, visible, dualCaller>>
    /\ UNCHANGED <<runVars, exceptDual>>

\* build_run_tree after RunTree.from_edit_tree: the new RunTree is added to
\* the layout and becomes trees['run'].
BuildFinish ==
    /\ dualPc = "construct"
    /\ rpc = "idle"
    /\ Len(trees) = dualBefore + 1
    /\ layout' = Append(layout, Len(trees))
    /\ run_tree' = Len(trees)
    /\ dualPc' = "built"
    /\ UNCHANGED <<mode, run_config, visible, dualCaller, dualBefore>>
    /\ UNCHANGED <<runVars, exceptDual>>

\* build_run_tree returns to show_widgets or to get_tree, which returns.
BuildReturn ==
    /\ dualPc \in {"unchanged", "built"}
    /\ dualPc' = IF dualCaller = "show_widgets" THEN "show" ELSE "idle"
    /\ UNCHANGED <<mode, run_tree, run_config, layout, visible, dualCaller,
                   dualBefore>>
    /\ UNCHANGED <<runVars, exceptDual>>

\* The last line of show_widgets: `self.trees[self.mode].show()`.
ShowTree ==
    /\ dualPc = "show"
    /\ visible' = visible \cup {TreeOf(mode)}
    /\ dualPc' = "idle"
    /\ UNCHANGED <<mode, run_tree, run_config, layout, dualCaller, dualBefore>>
    /\ UNCHANGED <<runVars, exceptDual>>

\* The user edits the root group in its page of the edit tree: the widgets
\* of the page write to the configuration they were given.
EditConfig ==
    /\ dualPc = "idle"
    /\ mode = "edit"
    /\ cfgFile' = [cfgFile EXCEPT
                      !.rootName = IF @ = "root" THEN "checkout" ELSE "root"]
    /\ UNCHANGED <<caches, prepared, trees, rpc, ri>>
    /\ UNCHANGED dualVars
    /\ UNCHANGED exceptDual

\* DualTree.__init__ has run: the edit tree is built, in the layout and shown.
InitDual ==
    /\ CheckIdle
    /\ CacheIdle
    /\ GroupIdle
    /\ EditIdle
    /\ MatchIdle
    /\ WinIdle
    /\ ListIdle
    /\ cfgFile \in NamedFiles
    /\ caches = 0
    /\ prepared = <<>>
    /\ trees = <<>>
    /\ rpc = "idle"
    /\ ri = 1
    /\ dualPc = "idle"
    /\ mode = "edit"
    /\ run_tree = NoWidget
    /\ run_config = "None"
    /\ layout = <<EditWidget>>
    /\ visible = {EditWidget}
    /\ dualCaller = "none"
    /\ dualBefore = 0

NextDual ==
    \/ SwitchMode
    \/ HideAll
    \/ GetTree
    \/ BuildRunTree
    \/ RunTreeInit
    \/ SwapPrepare
    \/ SwapMatch
    \/ SwapPage
    \/ BuildFinish
    \/ BuildReturn
    \/ ShowTree
    \/ EditConfig

SpecDual == InitDual /\ [][NextDual]_vars

\* The RunTree of the DualTree was built from a configuration that differs
\* from the edit tree's configuration of now.
RunTreeOutdated ==
    /\ run_tree # NoWidget
    /\ trees[run_tree].built_from # cfgFile

\* C15: when the configuration of the edit tree has been changed since the
\* run tree was built, the next build_run_tree builds a new RunTree from the
\* current configuration instead of returning with the old one.
C15_ChangedConfigurationRebuildsRunTree ==
    [][(dualPc = "build" /\ RunTreeOutdated) => dualPc' = "construct"]_vars

\* C16: build_run_tree with a run tree whose config_file equals the edit
\* tree's config_file creates no RunTree, adds nothing to the layout and
\* leaves trees['run'] the same object, up to its return.
C16_BuildRunTreeIdempotent ==
    [][/\ (/\ dualPc = "build"
           /\ run_tree # NoWidget
           /\ FileAt(trees[run_tree].config_file) = FileAt(EditTreeFile))
          => (/\ dualPc' = "unchanged"
              /\ trees' = trees
              /\ layout' = layout
              /\ run_tree' = run_tree)
       /\ dualPc = "unchanged"
          => (/\ dualPc' \in {"show", "idle"}
              /\ trees' = trees
              /\ layout' = layout
              /\ run_tree' = run_tree)]_vars

\* get_tree in run mode called build_run_tree, which found the run tree of an
\* unchanged configuration and returned.
C16_Witness ==
    /\ dualPc = "unchanged"
    /\ dualCaller = "get_tree"
    /\ run_tree # NoWidget
    /\ Len(trees) = 1
    /\ ~RunTreeOutdated

\* C17: between the methods of a DualTree mode is 'edit' or 'run', trees[mode]
\* is a tree, it is shown and the other tree is hidden; each switch_mode
\* changes mode to the other value and nothing else changes it.
C17_ModeAlternatesAndItsTreeIsShown ==
    /\ [](dualPc = "idle" =>
            /\ mode \in {"edit", "run"}
            /\ TreeOf(mode) # NoWidget
            /\ visible = {TreeOf(mode)})
    /\ [][/\ (dualPc = "idle" /\ dualPc' = "hide") => mode' # mode
          /\ mode' # mode => (dualPc = "idle" /\ dualPc' = "hide")]_vars

\* After two switch_mode calls the DualTree is in edit mode again: the run
\* tree exists and is hidden.
C17_Witness ==
    /\ dualPc = "idle"
    /\ mode = "edit"
    /\ run_tree # NoWidget
    /\ visible = {EditWidget}

(***************************************************************************)
(* EditTree: the selection of tree items (atef/widgets/config/window.py).   *)
(* assemble_tree creates the root item; the pages add the items of their    *)
(* children (PageWidget.setup_child_button, navigate_to).                   *)
(***************************************************************************)

MaxItems == 6

\* The items of the tree; item 1 is root_item.
Items == 1..itemCount

\* `self.last_selection = item` that keeps the earlier selection.
KeptSelection(item, last) == last

\* `self.last_selection = item`
NewSelection(item, last) == item

\* itemSelectionChanged with `item` the current item of the tree:
\* show_selected_display.  replaceWidget takes the page it replaces out of
\* the splitter, which hides it, and gives the new page the visibility of
\* the replaced one; addWidget and replaceWidget leave the page at index 1.
show_selected_display(item) ==
    IF item = last_selection
    THEN UNCHANGED <<last_selection, built_widgets, splitterPage, pageVisible>>
    ELSE /\ built_widgets' = built_widgets \cup {item}
         /\ splitterPage' = item
         /\ pageVisible' =
                ((pageVisible \ {last_selection}) \ {splitterPage}) \cup {item}
         /\ last_selection' = NewSelection(item, last_selection)

\* An item of the tree is selected, by the user or by navigate_to.
SelectItem(item) ==
    /\ itemCount > 0
    /\ currentItem' = item
    /\ show_selected_display(item)
    /\ UNCHANGED itemCount
    /\ UNCHANGED exceptEdit

\* EditTree.__init__ has run: last_selection was None when setCurrentItem
\* selected the root item, whose page was added to the splitter and shown.
InitEdit ==
    /\ CheckIdle
    /\ RunIdle
    /\ CacheIdle
    /\ GroupIdle
    /\ DualIdle
    /\ MatchIdle
    /\ WinIdle
    /\ ListIdle
    /\ itemCount \in 1..MaxItems
    /\ currentItem = 1
    /\ last_selection = 1
    /\ built_widgets = {1}
    /\ splitterPage = 1
    /\ pageVisible = {1}

NextEdit == \E item \in Items : SelectItem(item)

SpecEdit == InitEdit /\ [][NextEdit]_vars

\* C18: after any sequence of selections in an EditTree last_selection is
\* the current item, its page is visible and the page of every item selected
\* before is hidden; a selection of the item that is last_selection changes
\* nothing.
C18_SelectionShowsOnePage ==
    /\ [](itemCount > 0 =>
            /\ last_selection = currentItem
            /\ currentItem \in pageVisible
            /\ \A item \in built_widgets \ {currentItem} :
                  item \notin pageVisible)
    /\ [][currentItem' = last_selection =>
            UNCHANGED <<last_selection, built_widgets, splitterPage,
                        pageVisible>>]_vars

\* Items 1, 2 and 3 were selected in turn: the page of item 3 is the only
\* one shown.
C18_Witness ==
    /\ built_widgets = {1, 2, 3}
    /\ currentItem = 3
    /\ last_selection = 3
    /\ pageVisible = {3}

(***************************************************************************)
(* The pairing of one tree item in _swap_to_run_widgets, for an item of any *)
(* node of the file: the loop visits every item of the tree.                *)
(***************************************************************************)

\* The PreparedFile _swap_to_run_widgets prepares is the first of its tree.
MatchPrepared == 1

PairItem ==
    /\ matchPc = "start"
    /\ matchPaired' = PairedWith(matchFile, MatchPrepared, matchItem)
    /\ matchPc' = "paired"
    /\ UNCHANGED <<matchFile, matchItem>>
    /\ UNCHANGED exceptMatch

\* The next item of the tree, or the tree of another file.
NextItem ==
    /\ matchPc = "paired"
    /\ matchFile' \in NamedFiles
    /\ matchItem' \in DOMAIN matchFile'.nodes
    /\ matchPaired' = NoneRef
    /\ matchPc' = "start"
    /\ UNCHANGED exceptMatch

InitMatch ==
    /\ CheckIdle
    /\ RunIdle
    /\ CacheIdle
    /\ GroupIdle
    /\ DualIdle
    /\ EditIdle
    /\ WinIdle
    /\ ListIdle
    /\ matchFile \in NamedFiles
    /\ matchItem \in DOMAIN matchFile.nodes
    /\ matchPaired = NoneRef
    /\ matchPc = "start"

NextMatch == PairItem \/ NextItem

SpecMatch == InitMatch /\ [][NextMatch]_vars

MaxNewTabs == 1
MaxOpenedTabs == 1

\* None, where a file name may stand.
NoPath == [dir |-> "<None>", parts |-> <<>>]

\* The empty string, which a cancelled file dialog returns.
EmptyName == [dir |-> "", parts |-> <<"">>]

\* The names the user gives in the dialogs or a caller of open_file passes.
OpenNames == {[dir |-> "/d/", parts |-> <<"a", "json">>]}
SaveNames == {[dir |-> "/d/", parts |-> <<"c">>]}

\* What json.load and deserialize make of the file opened.
FileContents == {"ConfigurationFile", "ProcedureFile", "neither", "unreadable"}

\* user_default_filename
user_default_filename == [dir |-> "", parts |-> <<"untitled">>]

\* `'.' in filename`
HasDot(f) == Len(f.parts) > 1

\* filename.endswith('.json')
EndsWithJson(f) == HasDot(f) /\ f.parts[Len(f.parts)] = "json"

\* filename + '.json'
WithJson(f) == [f EXCEPT !.parts = Append(@, "json")]

\* os.path.basename
basename(f) == [f EXCEPT !.dir = ""]

get_tab_name(filename) ==
    LET f == IF filename = NoPath THEN user_default_filename ELSE filename
    IN  basename(IF HasDot(f) THEN f ELSE WithJson(f))

\* A tab holding a bare EditTree, as new_file adds it, and one holding a
\* DualTree, as open_file adds it.  The RunTree of a DualTree has a full_path
\* of its own, copied from the edit tree when it is built: it is None only
\* as long as there is no RunTree.
EditTreeTab(title) ==
    [cls |-> "EditTree", data |-> "ConfigurationFile()", title |-> title,
     mode |-> "edit", full_path |-> NoPath, run_full_path |-> NoPath]

DualTreeTab(data, filename, title) ==
    [cls |-> "DualTree", data |-> data, title |-> title,
     mode |-> "edit", full_path |-> filename, run_full_path |-> NoPath]

\* The places a tab can have in tab_widget.
TabPlaces == 1..(MaxNewTabs + MaxOpenedTabs)

\* The tabs holding a widget of class cls.
TabsOf(cls) == {t \in DOMAIN tabs : tabs[t].cls = cls}

\* Whether currentWidget() has the method get_tree: None and EditTree have not.
HasGetTree(t) == t # 0 /\ tabs[t].cls = "DualTree"

\* get_current_tree().full_path
CurrentFullPath ==
    IF tabs[currentTab].mode = "edit" THEN tabs[currentTab].full_path
    ELSE tabs[currentTab].run_full_path

\* The slot op has ended; for save and save_as, what was serialized and the
\* name of the file to write; for open_file, the name chosen and what the
\* file holds.
Ended(op, outcome, filename, data) ==
    lastCall' = [op |-> op, outcome |-> outcome, tab |-> currentTab',
                 filename |-> filename, data |-> data]

new_file ==
    /\ Cardinality(TabsOf("EditTree")) < MaxNewTabs
    /\ tabs' = Append(tabs, EditTreeTab(get_tab_name(NoPath)))
    /\ currentTab' = IF tabs = <<>> THEN 1 ELSE currentTab
    /\ Ended("new_file", "tab added", NoPath, "none")
    /\ UNCHANGED exceptWin

\* The two try blocks of open_file that would bind `data` whatever the file.
DataAlwaysBound(content) == TRUE

\* The two try blocks of open_file: `data` is bound when the file
\* deserializes as a ConfigurationFile or, failing that, as a ProcedureFile.
DataBound(content) == content \in {"ConfigurationFile", "ProcedureFile"}

\* open_file(filename=None) asks for the name; no name, nothing happens.
\* A file that cannot be read or parsed raises out of the slot.  A file that
\* is neither a ConfigurationFile nor a ProcedureFile leaves `data` unbound,
\* and `DualTree(config_file=data, ...)` raises UnboundLocalError.
open_file(filename, content) ==
    /\ Cardinality(TabsOf("DualTree")) < MaxOpenedTabs
    /\ IF filename = EmptyName
          THEN /\ UNCHANGED <<tabs, currentTab>>
               /\ Ended("open_file", "returned", filename, "none")
       ELSE IF content = "unreadable"
          THEN /\ UNCHANGED <<tabs, currentTab>>
               /\ Ended("open_file", "OSError or JSONDecodeError", filename,
                        content)
       ELSE IF ~DataBound(content)
          THEN /\ UNCHANGED <<tabs, currentTab>>
               /\ Ended("open_file", "UnboundLocalError", filename, content)
       ELSE /\ tabs' = Append(tabs,
                   DualTreeTab(content, filename, get_tab_name(filename)))
            /\ currentTab' = Len(tabs) + 1
            /\ Ended("open_file", "tab added", filename, content)
    /\ UNCHANGED exceptWin

\* The user selects a tab.
SelectTab(t) ==
    /\ t \in DOMAIN tabs
    /\ t # currentTab
    /\ currentTab' = t
    /\ UNCHANGED <<tabs, lastCall>>
    /\ UNCHANGED exceptWin

\* The toggle of a DualTree tab: DualTree.switch_mode; the first time run
\* mode is entered the RunTree is built with the full_path of the edit tree.
ToggleMode(t) ==
    /\ t \in DOMAIN tabs
    /\ tabs[t].cls = "DualTree"
    /\ tabs' = [tabs EXCEPT ![t] =
          IF tabs[t].mode = "run" THEN [@ EXCEPT !.mode = "edit"]
          ELSE IF tabs[t].run_full_path # NoPath THEN [@ EXCEPT !.mode = "run"]
          ELSE [@ EXCEPT !.mode = "run",
                         !.run_full_path = tabs[t].full_path]]
    /\ UNCHANGED <<currentTab, lastCall>>
    /\ UNCHANGED exceptWin

\* save_as(filename) after get_current_tree for the current tab, a DualTree:
\* serialize_tree, the dialog when filename is None, '.json' appended to a
\* name not ending with it, then the write.
SaveCurrentTree(op, filename) ==
    \E serializes, writes \in BOOLEAN, chosen \in SaveNames :
        LET asked == IF filename = NoPath THEN chosen ELSE filename
            name == IF EndsWithJson(asked) THEN asked ELSE WithJson(asked)
            data == tabs[currentTab].data
        IN  IF ~serializes
               THEN /\ UNCHANGED tabs
                    /\ Ended(op, "not serialized", NoPath, data)
            ELSE IF ~writes
               THEN /\ UNCHANGED tabs
                    /\ Ended(op, "OSError logged", name, data)
            ELSE /\ tabs' = [tabs EXCEPT ![currentTab] =
                      IF @.mode = "edit"
                      THEN [@ EXCEPT !.title = get_tab_name(name),
                                     !.full_path = name]
                      ELSE [@ EXCEPT !.title = get_tab_name(name),
                                     !.run_full_path = name]]
                 /\ Ended(op, "written", name, data)

\* save: get_current_tree, then save_as with the full_path of the tree.
save ==
    /\ UNCHANGED currentTab
    /\ IF HasGetTree(currentTab)
          THEN SaveCurrentTree("save", CurrentFullPath)
          ELSE /\ UNCHANGED tabs
               /\ Ended("save", "AttributeError", NoPath, "none")
    /\ UNCHANGED exceptWin

\* save_as as the slot of action_save_as: no filename is passed.
save_as ==
    /\ UNCHANGED currentTab
    /\ IF HasGetTree(currentTab)
          THEN SaveCurrentTree("save_as", NoPath)
          ELSE /\ UNCHANGED tabs
               /\ Ended("save_as", "AttributeError", NoPath, "none")
    /\ UNCHANGED exceptWin

\* Window.__init__ has run (show_welcome = False): there is no tab.
InitWin ==
    /\ CheckIdle
    /\ RunIdle
    /\ CacheIdle
    /\ GroupIdle
    /\ DualIdle
    /\ EditIdle
    /\ MatchIdle
    /\ WinIdle
    /\ ListIdle

NextWin ==
    \/ new_file
    \/ \E filename \in OpenNames \cup {EmptyName}, content \in FileContents :
          open_file(filename, content)
    \/ \E t \in TabPlaces : SelectTab(t)
    \/ \E t \in TabPlaces : ToggleMode(t)
    \/ save
    \/ save_as

SpecWin == InitWin /\ [][NextWin]_vars

\* C20: save and save_as on the current tab, made by new_file or by
\* open_file, come to serialize the config_file of that tab; after a
\* successful write the full_path of the tree is the name written and the
\* title of the tab its base name.
C20_SaveSerializesTheCurrentTab ==
    (lastCall.op \in {"save", "save_as"} /\ currentTab # 0) =>
        /\ lastCall.data = tabs[currentTab].data
        /\ lastCall.outcome = "written" =>
              /\ CurrentFullPath = lastCall.filename
              /\ tabs[currentTab].title = basename(lastCall.filename)

\* C21: an open_file for which no name is chosen, or whose file deserializes
\* neither as a ConfigurationFile nor as a ProcedureFile, adds no tab: the
\* tabs, with the trees they hold, and the current tab are as before.
C21_FailedOpenAddsNoTab ==
    [][(/\ lastCall' # lastCall
        /\ lastCall'.op = "open_file"
        /\ (lastCall'.filename = EmptyName \/ lastCall'.data = "neither"))
       => (tabs' = tabs /\ currentTab' = currentTab)]_vars

\* With one tab open, open_file was given a file that is neither kind of
\* document: the tab is still the only one.
C21_Witness ==
    /\ lastCall.op = "open_file"
    /\ lastCall.data = "neither"
    /\ lastCall.outcome = "UnboundLocalError"
    /\ Len(tabs) = 1
    /\ currentTab = 1

(***************************************************************************)
(* StringListWithDialog (atef/widgets/config/utils.py).  data_list is a     *)
(* QDataclassList, a list behind get, append, remove_value and              *)
(* put_to_index; a method works on the pair of data_list and the rows of    *)
(* list_strings, and stops where a call raises.                             *)
(***************************************************************************)

MaxListLen == 3
MaxArgLen == 2

\* The strings entered or chosen.
Strings == {"a", "b"}

\* The lists of strings handed to add_items, remove_items and edit_items.
ArgLists == SeqsUpTo(Strings, MaxArgLen)

\* s without its element at place k.
WithoutIndex(s, k) == [j \in 1..(Len(s) - 1) |-> IF j < k THEN s[j] ELSE s[j + 1]]

\* list.index: the first place of v in s.
FirstIndex(s, v) ==
    CHOOSE k \in DOMAIN s : s[k] = v /\ \A h \in 1..(k - 1) : s[h] # v

\* s without the first of its elements equal to v, if there is one.
WithoutFirst(s, v) ==
    IF v \in Range(s) THEN WithoutIndex(s, FirstIndex(s, v)) ELSE s

\* s with the first of its elements equal to v, if there is one, set to w.
FirstReplaced(s, v, w) ==
    IF v \in Range(s) THEN [s EXCEPT ![FirstIndex(s, v)] = w] ELSE s

\* data_list and the rows of list_strings in the course of a method.
ListState(data, rows) == [data |-> data, rows |-> rows, raised |-> FALSE]

\* `if not init` that is always entered.
BridgeNeverSkipped(init) == FALSE

\* `if not init`: the initial strings are not written to the bridge.
BridgeSkipped(init) == init

\* `not self.allow_duplicates and item in self.data_list.get()` that never
\* finds the item.
NeverRefused(data, item, dups) == FALSE

\* `not self.allow_duplicates and item in self.data_list.get()`
Refused(data, item, dups) == ~dups /\ item \in Range(data)

\* _add_item(item, init=init)
add_item(st, item, init, dups) ==
    IF BridgeSkipped(init)
    THEN [st EXCEPT !.rows = Append(@, item)]
    ELSE IF Refused(st.data, item, dups) THEN st
    ELSE [st EXCEPT !.data = Append(@, item), !.rows = Append(@, item)]

\* _remove_item(item): remove_value, then the first row with the text.
remove_item(st, item, strict) ==
    IF item \notin Range(st.data) /\ strict
    THEN [st EXCEPT !.raised = TRUE]
    ELSE [st EXCEPT !.data = WithoutFirst(@, item),
                    !.rows = WithoutFirst(@, item)]

\* The row of list_strings whose text _edit_item sets: the first with the
\* text old.
EditedRows(rows, old, new) == FirstReplaced(rows, old, new)

\* An edit that takes old out of the list and puts new at its end.
RemovedAndAppended(data, old, new) == Append(WithoutFirst(data, old), new)

\* put_to_index(index=self.data_list.get().index(old), new_value=new)
EditedData(data, old, new) == FirstReplaced(data, old, new)

\* _edit_item(old, new)
edit_item(st, old, new, dups, strict) ==
    IF old = new THEN st
    ELSE IF Refused(st.data, new, dups) THEN remove_item(st, old, strict)
    ELSE IF old \notin Range(st.data) THEN [st EXCEPT !.raised = TRUE]
    ELSE [st EXCEPT !.data = EditedData(@, old, new),
                    !.rows = EditedRows(@, old, new)]

\* add_items(items[k..])
RECURSIVE add_items(_, _, _, _)
add_items(st, items, k, dups) ==
    IF k > Len(items) THEN st
    ELSE add_items(add_item(st, items[k], FALSE, dups), items, k + 1, dups)

\* _setup_ui: `for starting_value in starting_list or []` from place k on.
RECURSIVE setup_ui(_, _, _, _)
setup_ui(st, starting_list, k, dups) ==
    IF k > Len(starting_list) THEN st
    ELSE setup_ui(add_item(st, starting_list[k], TRUE, dups),
                  starting_list, k + 1, dups)

\* remove_items(items[k..])
RECURSIVE remove_items(_, _, _, _)
remove_items(st, items, k, strict) ==
    IF k > Len(items) \/ st.raised THEN st
    ELSE remove_items(remove_item(st, items[k], strict), items, k + 1, strict)

\* The elements of s that are not in the set out, in order.
RECURSIVE Filtered(_, _, _)
Filtered(s, out, k) ==
    IF k > Len(s) THEN <<>>
    ELSE (IF s[k] \in out THEN <<>> ELSE <<s[k]>>) \o Filtered(s, out, k + 1)

\* The loop over zip_longest(old_uniques, new_uniques) from place k on.
RECURSIVE edit_loop(_, _, _, _, _, _)
edit_loop(st, olds, news, k, dups, strict) ==
    IF (k > Len(olds) /\ k > Len(news)) \/ st.raised THEN st
    ELSE LET next == IF k > Len(olds) THEN add_item(st, news[k], FALSE, dups)
                     ELSE IF k > Len(news) THEN remove_item(st, olds[k], strict)
                     ELSE edit_item(st, olds[k], news[k], dups, strict)
         IN  edit_loop(next, olds, news, k + 1, dups, strict)

\* edit_items(old_items, new_items)
edit_items(st, old_items, new_items, dups, strict) ==
    LET old_uniques == Filtered(old_items, Range(new_items), 1)
        new_in_neither == Filtered(new_items, Range(old_items), 1)
        new_uniques == IF ~dups
                          THEN Filtered(new_in_neither, Range(st.data), 1)
                          ELSE new_in_neither
    IN  edit_loop(st, old_uniques, new_uniques, 1, dups, strict)

\* _remove_item_request for the selected rows: for each, remove_value of its
\* text and takeItem of the row itself.  The rows are taken from the last.
RECURSIVE remove_selected(_, _, _)
remove_selected(st, selected, strict) ==
    IF selected = {} \/ st.raised THEN st
    ELSE LET row == CHOOSE r \in selected : \A q \in selected : q <= r
             text == st.rows[row]
         IN  IF text \notin Range(st.data) /\ strict
             THEN [st EXCEPT !.raised = TRUE]
             ELSE remove_selected(
                      [st EXCEPT !.data = WithoutFirst(@, text),
                                 !.rows = WithoutIndex(@, row)],
                      selected \ {row}, strict)

\* A method has run and left st.
Leaves(st) ==
    /\ data_list' = st.data
    /\ list_strings' = st.rows
    /\ listPc' = "used"
    /\ UNCHANGED <<given_list, allow_duplicates, removeRaises>>
    /\ UNCHANGED exceptList

\* StringListWithDialog.__init__
Construct ==
    /\ listPc = "new"
    /\ LET st == setup_ui(ListState(data_list, <<>>), data_list, 1,
                          allow_duplicates)
       IN  /\ data_list' = st.data
           /\ list_strings' = st.rows
    /\ listPc' = "built"
    /\ UNCHANGED <<given_list, allow_duplicates, removeRaises, lastEdit>>
    /\ UNCHANGED exceptList

AddItems(items) ==
    /\ listPc \in {"built", "used"}
    /\ LET st == add_items(ListState(data_list, list_strings), items, 1,
                           allow_duplicates)
       IN  Len(st.data) <= MaxListLen /\ Leaves(st)
    /\ UNCHANGED lastEdit

RemoveItems(items) ==
    /\ listPc \in {"built", "used"}
    /\ Leaves(remove_items(ListState(data_list, list_strings), items, 1,
                           removeRaises))
    /\ UNCHANGED lastEdit

EditItems(old_items, new_items) ==
    /\ listPc \in {"built", "used"}
    /\ LET st == edit_items(ListState(data_list, list_strings), old_items,
                            new_items, allow_duplicates, removeRaises)
       IN  Len(st.data) <= MaxListLen /\ Leaves(st)
    /\ UNCHANGED lastEdit

\* The user selects rows and removes them (button or context menu).
RemoveSelected(selected) ==
    /\ listPc \in {"built", "used"}
    /\ selected # {}
    /\ selected \subseteq DOMAIN list_strings
    /\ Leaves(remove_selected(ListState(data_list, list_strings), selected,
                              removeRaises))
    /\ UNCHANGED lastEdit

\* A widget is about to be made over a list of strings.
InitList ==
    /\ CheckIdle
    /\ RunIdle
    /\ CacheIdle
    /\ GroupIdle
    /\ DualIdle
    /\ EditIdle
    /\ MatchIdle
    /\ WinIdle
    /\ given_list \in SeqsUpTo(Strings, MaxListLen)
    /\ data_list = given_list
    /\ list_strings = <<>>
    /\ allow_duplicates \in BOOLEAN
    /\ removeRaises \in BOOLEAN
    /\ listPc = "new"
    /\ lastEdit = [old_items |-> <<>>, new_items |-> <<>>, before |-> <<>>]

NextList ==
    \/ Construct
    \/ \E items \in ArgLists : AddItems(items)
    \/ \E items \in ArgLists : RemoveItems(items)
    \/ \E old_items, new_items \in ArgLists : EditItems(old_items, new_items)
    \/ \E selected \in SUBSET (1..MaxListLen) : RemoveSelected(selected)

SpecList == InitList /\ [][NextList]_vars

\* C22: with allow_duplicates False and an initial data_list without
\* duplicates, no sequence of add_items, remove_items, edit_items and
\* removals of selected rows makes data_list hold a string twice.
C22_NoDuplicatesEver ==
    (~allow_duplicates /\ Distinct(given_list)) => Distinct(data_list)

\* Methods have run on a list that began as one string and holds two now.
C22_Witness ==
    /\ ~allow_duplicates
    /\ given_list = <<"a">>
    /\ listPc = "used"
    /\ data_list = <<"b", "a">>

\* C23: after construction and after any sequence of add_items,
\* remove_items, edit_items and removals of selected rows the texts of the
\* rows of the list widget are the contents of data_list, in the same order.
C23_WidgetShowsDataList ==
    listPc \in {"built", "used"} => list_strings = data_list

\* C24: constructing a StringListWithDialog does not change data_list: the
\* initial strings are only copied into the list widget.
C24_ConstructionKeepsDataList ==
    listPc = "built" => (data_list = given_list /\ list_strings = given_list)

C24_Witness ==
    /\ listPc = "built"
    /\ allow_duplicates
    /\ given_list = <<"a", "b", "a">>
    /\ list_strings = <<"a", "b", "a">>

(***************************************************************************)
(* edit_items as a function of data_list and its two arguments: one call    *)
(* on a widget just built, over three strings.                              *)
(***************************************************************************)

EditStrings == {"a", "b", "c"}

\* The lists handed over: the data_list the widget is built on, and for
\* edit_items the selected strings and the lines the user entered
\* (BulkListWidget._open_multiline).
EditArgLists == SeqsUpTo(EditStrings, MaxArgLen)

\* edit_items(old_items, new_items), with its arguments and the data_list
\* it found kept in lastEdit.
EditItemsOnce(old_items, new_items) ==
    /\ listPc = "built"
    /\ lastEdit' = [old_items |-> old_items, new_items |-> new_items,
                    before |-> data_list]
    /\ Leaves(edit_items(ListState(data_list, list_strings), old_items,
                         new_items, allow_duplicates, removeRaises))

InitEditItems ==
    /\ CheckIdle
    /\ RunIdle
    /\ CacheIdle
    /\ GroupIdle
    /\ DualIdle
    /\ EditIdle
    /\ MatchIdle
    /\ WinIdle
    /\ given_list \in EditArgLists
    /\ data_list = given_list
    /\ list_strings = <<>>
    /\ allow_duplicates \in BOOLEAN
    /\ removeRaises \in BOOLEAN
    /\ listPc = "new"
    /\ lastEdit = [old_items |-> <<>>, new_items |-> <<>>, before |-> <<>>]

NextEditItems ==
    \/ Construct
    \/ \E old_items, new_items \in EditArgLists :
           EditItemsOnce(old_items, new_items)

SpecEditItems == InitEditItems /\ [][NextEditItems]_vars

\* The strings of old_items that are not in new_items, and the strings of
\* new_items that are in neither old_items nor the list, each once.
Leaving == Filtered(lastEdit.old_items, Range(lastEdit.new_items), 1)

RECURSIVE Once(_, _)
Once(s, k) ==
    IF k > Len(s) THEN <<>>
    ELSE (IF \E j \in 1..(k - 1) : s[j] = s[k] THEN <<>> ELSE <<s[k]>>)
         \o Once(s, k + 1)

Entering ==
    Once(Filtered(lastEdit.new_items,
                  Range(lastEdit.old_items) \cup Range(lastEdit.before), 1), 1)

\* Where a string of the list before the call is found after it: a string
\* replaced in place as its replacement, a string that stays as itself.
After(x) ==
    IF x \in Range(Leaving)
    THEN IF FirstIndex(Leaving, x) <= Len(Entering)
         THEN Entering[FirstIndex(Leaving, x)] ELSE "gone"
    ELSE x

\* What the claim says of data_list after the call.
EditItemsOutcome ==
    /\ Range(data_list) =
           (Range(lastEdit.before) \ Range(lastEdit.old_items))
               \cup Range(lastEdit.new_items)
    /\ LET both == Range(lastEdit.old_items) \cup Range(lastEdit.new_items)
       IN  Filtered(data_list, both, 1) = Filtered(lastEdit.before, both, 1)
    /\ \A x, y \in Range(lastEdit.before) :
           (/\ After(x) \in Range(data_list)
            /\ After(y) \in Range(data_list)
            /\ FirstIndex(lastEdit.before, x) < FirstIndex(lastEdit.before, y))
           => FirstIndex(data_list, After(x)) < FirstIndex(data_list, After(y))

\* The call of edit_items the claim is about.
EditItemsCase ==
    /\ listPc = "used"
    /\ ~allow_duplicates
    /\ Distinct(lastEdit.old_items)
    /\ Range(lastEdit.old_items) \subseteq Range(lastEdit.before)

\* C25: with allow_duplicates False, old_items distinct strings of
\* data_list and any new_items, after edit_items(old_items, new_items) the
\* strings of data_list are the previous ones without old_items, with
\* new_items; the strings in neither list keep their order, and a string
\* replaced in place stands where the string it replaces stood.
C25_EditItemsSetAndOrder == EditItemsCase => EditItemsOutcome

\* C25, for a data_list that holds no string twice when edit_items is
\* called: the strings of data_list after the call are the previous ones
\* without old_items, with new_items; the strings in neither list keep
\* their order, and a string replaced in place stands where the string it
\* replaces stood.
C25_EditItemsOnDistinctList ==
    (EditItemsCase /\ Distinct(lastEdit.before)) => EditItemsOutcome

\* a, b with a edited to c: c stands first, before b.
C25_Witness ==
    /\ EditItemsCase
    /\ lastEdit.before = <<"a", "b">>
    /\ lastEdit.old_items = <<"a">>
    /\ lastEdit.new_items = <<"c">>
    /\ data_list = <<"c", "b">>

====
